---- MODULE Spec2Model ----
(***************************************************************************)
(* Model of alchemy/portfolio.py: the asset risk profile builder           *)
(* (get_asset_risk_profile) and the two definitions of the portfolio       *)
(* builder (get_portfolio_risk_profile).  A run is one caller session:     *)
(* build an asset profile, call a portfolio builder on it, call it again   *)
(* with the weights scaled.                                                *)
(*                                                                         *)
(* Floating point numbers are modelled exactly: a number is NaN, +-inf, a  *)
(* reduced rational n/d, or (n/d)*ln(la/lb).  A standard deviation is kept *)
(* through its square: sq_scale * (unbiased sample variance of sample).    *)
(***************************************************************************)
EXTENDS Integers, Sequences, FiniteSets, TLC

\* ---------------------------------------------------------------- bounds
MaxDates == 3
MaxAssets == 2

\* ------------------------------------------------------------- constants
TradingDays == 252

\* --------------------------------------------------------------- numbers
Abs(x) == IF x < 0 THEN -x ELSE x

Sign(x) == IF x < 0 THEN -1 ELSE IF x = 0 THEN 0 ELSE 1

RECURSIVE Gcd(_, _)
Gcd(a, b) == IF b = 0 THEN a ELSE Gcd(b, a % b)

NaN == [k |-> "nan", n |-> 0, d |-> 1, la |-> 1, lb |-> 1]

Inf(s) == [k |-> "inf", n |-> s, d |-> 1, la |-> 1, lb |-> 1]

Rat(n, d) ==
    LET g == Gcd(Abs(n), Abs(d))
        s == IF d < 0 THEN -1 ELSE 1
    IN [k |-> "rat", n |-> (s * n) \div g, d |-> (s * d) \div g, la |-> 1, lb |-> 1]

Unrepresented == [k |-> "unrepresented", n |-> 0, d |-> 1, la |-> 1, lb |-> 1]

\* (cn/cd) * ln(a/b), a, b > 0
LogNum(cn, cd, a, b) ==
    LET c == Rat(cn, cd)
        g == Gcd(a, b)
    IN IF c.n = 0 \/ a = b THEN Rat(0, 1)
       ELSE [k |-> "log", n |-> c.n, d |-> c.d, la |-> a \div g, lb |-> b \div g]

\* sign of a number that is not NaN
SignOf(x) ==
    IF x.k = "log" THEN Sign(x.n) * (IF x.la > x.lb THEN 1 ELSE -1) ELSE Sign(x.n)

\* (a/b) * (c/d), cancelling before multiplying
RatMul(a, b, c, d) ==
    LET g1 == Gcd(Abs(a), Abs(d))
        g2 == Gcd(Abs(c), Abs(b))
        h1 == IF g1 = 0 THEN 1 ELSE g1
        h2 == IF g2 = 0 THEN 1 ELSE g2
    IN Rat((a \div h1) * (c \div h2), (b \div h2) * (d \div h1))

Mul(x, y) ==
    IF x.k = "nan" \/ y.k = "nan" THEN NaN
    ELSE IF x.k = "inf" \/ y.k = "inf"
         THEN IF SignOf(x) * SignOf(y) = 0 THEN NaN ELSE Inf(SignOf(x) * SignOf(y))
    ELSE IF x.k = "rat" /\ y.k = "rat" THEN RatMul(x.n, x.d, y.n, y.d)
    ELSE IF x.k = "log" /\ y.k = "rat"
         THEN LET c == RatMul(x.n, x.d, y.n, y.d) IN LogNum(c.n, c.d, x.la, x.lb)
    ELSE IF x.k = "rat" /\ y.k = "log"
         THEN LET c == RatMul(x.n, x.d, y.n, y.d) IN LogNum(c.n, c.d, y.la, y.lb)
    ELSE Unrepresented

Add(x, y) ==
    IF x.k = "nan" \/ y.k = "nan" THEN NaN
    ELSE IF x.k = "inf" /\ y.k = "inf" THEN (IF x.n = y.n THEN x ELSE NaN)
    ELSE IF x.k = "inf" THEN x
    ELSE IF y.k = "inf" THEN y
    ELSE IF x.k = "rat" /\ y.k = "rat"
         THEN LET g == Gcd(x.d, y.d)
                  l == (x.d \div g) * y.d
              IN Rat(x.n * (l \div x.d) + y.n * (l \div y.d), l)
    ELSE IF x.k = "rat" /\ x.n = 0 THEN y
    ELSE IF y.k = "rat" /\ y.n = 0 THEN x
    ELSE IF x.k = "log" /\ y.k = "log" /\ x.n = y.n /\ x.d = y.d
         THEN LogNum(x.n, x.d, x.la * y.la, x.lb * y.lb)
    ELSE Unrepresented

\* IEEE division of finite numbers: x/0 is +-inf, 0/0 is NaN
Div(x, y) ==
    IF x.k = "nan" \/ y.k = "nan" THEN NaN
    ELSE IF x.k = "rat" /\ y.k = "rat"
         THEN IF y.n = 0
              THEN (IF x.n = 0 THEN NaN ELSE Inf(Sign(x.n)))
              ELSE RatMul(x.n, x.d, y.d, y.n)
    ELSE Unrepresented

\* numpy.log
Ln(x) ==
    IF x.k = "nan" THEN NaN
    ELSE IF x.k = "inf" THEN (IF x.n > 0 THEN x ELSE NaN)
    ELSE IF x.k = "rat"
         THEN IF x.n < 0 THEN NaN
              ELSE IF x.n = 0 THEN Inf(-1)
              ELSE LogNum(1, 1, x.n, x.d)
    ELSE Unrepresented

\* ------------------------------------------------------- sequence helpers
RECURSIVE SumSeq(_)
SumSeq(s) == IF s = <<>> THEN Rat(0, 1) ELSE Add(SumSeq(SubSeq(s, 1, Len(s) - 1)), s[Len(s)])

RECURSIVE DropNaN(_)
DropNaN(s) ==
    IF s = <<>> THEN <<>>
    ELSE IF s[1].k = "nan" THEN DropNaN(Tail(s))
    ELSE <<s[1]>> \o DropNaN(Tail(s))

RECURSIVE SortedSeq(_)
SortedSeq(S) ==
    IF S = {} THEN <<>>
    ELSE LET m == CHOOSE x \in S : \A y \in S : x <= y
         IN <<m>> \o SortedSeq(S \ {m})

Range(s) == {s[i] : i \in 1..Len(s)}

\* pandas Series.mean(): NaN entries are skipped; NaN when nothing is left
Mean(s) ==
    LET v == DropNaN(s)
    IN IF v = <<>> THEN NaN ELSE Mul(SumSeq(v), Rat(1, Len(v)))

NaNVol == [k |-> "nan", sq_scale |-> <<1, 1>>, sample |-> <<>>]

\* pandas Series.std(): unbiased (ddof = 1), NaN entries skipped, NaN with
\* fewer than two values or with an infinite value
Std(s) ==
    LET v == DropNaN(s)
    IN IF Len(v) < 2 \/ \E i \in 1..Len(v) : v[i].k = "inf" THEN NaNVol
       ELSE [k |-> "std", sq_scale |-> <<1, 1>>, sample |-> v]

\* v * sqrt(c): the square is scaled by c
TimesSqrt(v, c) ==
    IF v.k = "nan" THEN NaNVol
    ELSE LET q == Rat(v.sq_scale[1] * c, v.sq_scale[2])
         IN [k |-> "std", sq_scale |-> <<q.n, q.d>>, sample |-> v.sample]

\* ---------------------------------------------------------- input tables
Dates == 1..MaxDates

Fields == {"Close", "AdjClose", "Open"}

\* closing prices of the assets by date (cycled beyond the listed dates)
CloseSeries ==
    << <<100, 110, 121, 121, 110>>,
       <<50, 50, 55, 66, 66>>,
       <<20, 22, 22, 20, 22>>,
       <<10, 10, 11, 11, 10>> >>

FieldPrice(a, f, t) ==
    LET s == CloseSeries[((a - 1) % Len(CloseSeries)) + 1]
        c == s[((t - 1) % Len(s)) + 1]
    IN IF f = "Close" THEN c ELSE IF f = "AdjClose" THEN c \div 2 ELSE c + 1

\* a price table of asset a: rows at the dates of index, one column per field;
\* index_kind is the dtype of the date index ("datetime" when the dates were
\* parsed, "object" when they are the strings read from the csv file)
Table(a, index, fields, kind) ==
    [index |-> index,
     index_kind |-> kind,
     data |-> [f \in fields |-> [j \in 1..Len(index) |-> Rat(FieldPrice(a, f, index[j]), 1)]]]

\* the date ranges a table may cover: none, the first n dates, the last n dates
Indexes ==
    {SortedSeq(1..n) : n \in 0..MaxDates} \cup {SortedSeq(n..MaxDates) : n \in 1..MaxDates}

FieldSets == {{"Close", "AdjClose", "Open"}, {"Open"}}

TableLists(m) ==
    [1..m -> Indexes \X FieldSets]

IndexKinds == {"datetime", "object"}

MkTables(sel, kind) == [a \in 1..Len(sel) |-> Table(a, sel[a][1], sel[a][2], kind)]

AllNames == <<"A", "B", "C", "D", "E">>

NameLists(m) ==
    {SubSeq(AllNames, 1, m)} \cup (IF m = 2 THEN {<<"B", "A">>} ELSE {})

\* ------------------------------------------------------- pandas operations
HasColumn(df, f) == f \in DOMAIN df.data

\* variant: another column stands in for a missing one
GetColumnFallback(df, f) ==
    LET g == IF HasColumn(df, f) THEN f ELSE CHOOSE h \in DOMAIN df.data : TRUE
    IN [missing |-> FALSE, index |-> df.index, index_kind |-> df.index_kind,
        values |-> df.data[g]]

KeyMissing == [missing |-> TRUE, index |-> <<>>, index_kind |-> "", values |-> <<>>]

\* df[price_field_name]: the column, or a KeyError when the table has none of
\* that name
GetColumn(df, f) ==
    IF HasColumn(df, f)
    THEN [missing |-> FALSE, index |-> df.index, index_kind |-> df.index_kind,
          values |-> df.data[f]]
    ELSE KeyMissing

RECURSIVE AppearanceUnion(_, _)
AppearanceUnion(acc, idxs) ==
    IF idxs = <<>> THEN acc
    ELSE AppearanceUnion(acc \o SelectSeq(idxs[1], LAMBDA t : t \notin Range(acc)), Tail(idxs))

\* the row index of pd.concat(axis=1): the union of the indexes; sorted when
\* every index is a DatetimeIndex, in order of first appearance otherwise
UnionIndexes(ss) ==
    LET idxs == [i \in 1..Len(ss) |-> ss[i].index]
    IN IF \A i \in 1..Len(ss) : ss[i].index_kind = "datetime"
       THEN SortedSeq(UNION {Range(idxs[i]) : i \in 1..Len(idxs)})
       ELSE AppearanceUnion(<<>>, idxs)

\* variant: a date absent from a table is filled with zero
ValueAtZeroFill(s, t) ==
    IF t \in Range(s.index)
    THEN s.values[CHOOSE j \in 1..Len(s.index) : s.index[j] = t]
    ELSE Rat(0, 1)

ValueAt(s, t) ==
    IF t \in Range(s.index)
    THEN s.values[CHOOSE j \in 1..Len(s.index) : s.index[j] = t]
    ELSE NaN

\* pd.concat(series, axis=1) of a non-empty list, default outer join
Concat(ss) ==
    LET idx == UnionIndexes(ss)
    IN [index |-> idx,
        columns |-> [c \in 1..Len(ss) |-> c],
        values |-> [r \in 1..Len(idx) |-> [c \in 1..Len(ss) |-> ValueAt(ss[c], idx[r])]]]

NRows(df) == Len(df.index)

NCols(df) == Len(df.columns)

\* DataFrame.shift(1): row r holds the values of row r - 1, the first row NaN
Shift(df) ==
    [df EXCEPT !.values =
        [r \in 1..NRows(df) |->
            [c \in 1..NCols(df) |-> IF r = 1 THEN NaN ELSE df.values[r - 1][c]]]]

\* elementwise a / b of two frames with the same index and columns
FrameDiv(a, b) ==
    [a EXCEPT !.values =
        [r \in 1..NRows(a) |-> [c \in 1..NCols(a) |-> Div(a.values[r][c], b.values[r][c])]]]

FrameLog(a) ==
    [a EXCEPT !.values =
        [r \in 1..NRows(a) |-> [c \in 1..NCols(a) |-> Ln(a.values[r][c])]]]

\* variant: the first row is kept
ILoc1KeepFirst(df) == df

\* .iloc[1:]
ILoc1(df) ==
    IF NRows(df) = 0 THEN df
    ELSE [df EXCEPT !.index = Tail(df.index), !.values = Tail(df.values)]

ColumnOf(df, c) == [r \in 1..NRows(df) |-> df.values[r][c]]

\* DataFrame.mean() / DataFrame.std(): one value per column
FrameMean(df) == [c \in 1..NCols(df) |-> Mean(ColumnOf(df, c))]

FrameStd(df) == [c \in 1..NCols(df) |-> Std(ColumnOf(df, c))]

\* -------------------------------------------------------------- outcomes
NoExc == [type |-> "none", counts |-> <<>>, key |-> "", text |-> ""]

NoProfile == [none |-> TRUE]

Return(profile, reads) ==
    [status |-> "ok", value |-> profile, exc |-> NoExc, line |-> 0, reads |-> reads]

Raise(type, text, counts, key, line, reads) ==
    [status |-> "raise", value |-> NoProfile,
     exc |-> [type |-> type, counts |-> counts, key |-> key, text |-> text],
     line |-> line, reads |-> reads]

AnnualReturn(daily_return) == [c \in 1..Len(daily_return) |-> Mul(daily_return[c], Rat(TradingDays, 1))]

\* variant: the volatility is scaled like the return
AnnualVolLinear(daily_vol) ==
    [c \in 1..Len(daily_vol) |-> TimesSqrt(daily_vol[c], TradingDays * TradingDays)]

AnnualVol(daily_vol) == [c \in 1..Len(daily_vol) |-> TimesSqrt(daily_vol[c], TradingDays)]

AssetRiskProfile(prices, log_returns, daily_return, daily_vol, annual_return, annual_vol) ==
    [time_series |-> [prices |-> prices, log_returns |-> log_returns],
     metrics |-> [daily_return |-> daily_return, daily_vol |-> daily_vol,
                  annual_return |-> annual_return, annual_vol |-> annual_vol]]

\* -------------------------------------------------- get_asset_risk_profile
\* [df[price_field_name] for df in dfs]: the columns in list order
SelectColumns(dfs, f) == [i \in 1..Len(dfs) |-> GetColumn(dfs[i], f)]

\* position of the first lookup that raised, 0 when none did; the list
\* comprehension stops there
FirstMissing(cols) ==
    IF \A i \in 1..Len(cols) : ~cols[i].missing THEN 0
    ELSE CHOOSE i \in 1..Len(cols) :
            /\ cols[i].missing
            /\ \A j \in 1..(i - 1) : ~cols[j].missing

\* variant: only surplus tables are detected
LenMismatchSurplus(dfs, asset_names) == Len(dfs) > Len(asset_names)

LenMismatch(dfs, asset_names) == Len(dfs) # Len(asset_names)

get_asset_risk_profile(dfs, asset_names, price_field_name) ==
    IF LenMismatch(dfs, asset_names)
    THEN Raise("ValueError", "DataFrames vs names", <<Len(dfs), Len(asset_names)>>, "", 46, 0)
    ELSE
    LET cols == SelectColumns(dfs, price_field_name)
    IN IF FirstMissing(cols) # 0
       THEN Raise("KeyError", "", <<>>, price_field_name, 48, FirstMissing(cols))
       ELSE IF cols = <<>>
       THEN Raise("ValueError", "No objects to concatenate", <<>>, "", 48, 0)
       ELSE
       LET table == Concat(cols)
       IN IF Len(asset_names) # NCols(table)
       THEN Raise("ValueError", "Length mismatch", <<NCols(table), Len(asset_names)>>,
                  "", 49, Len(dfs))
       ELSE
       LET prices == [table EXCEPT !.columns = asset_names]
           log_returns == ILoc1(FrameLog(FrameDiv(prices, Shift(prices))))
           daily_return == FrameMean(log_returns)
           daily_vol == FrameStd(log_returns)
           annual_return == AnnualReturn(daily_return)
           annual_vol == AnnualVol(daily_vol)
       IN Return(AssetRiskProfile(prices, log_returns, daily_return, daily_vol,
                                  annual_return, annual_vol), Len(dfs))

\* ------------------------------------------- get_portfolio_risk_profile
\* DataFrame.dot(vector): defined when the vector has one entry per column
DotAligned(df, v) == NCols(df) = Len(v)

\* prices @ asset_shares: one value per row, NaN when any price of the row is
FrameDot(df, v) ==
    [r \in 1..NRows(df) |-> SumSeq([c \in 1..NCols(df) |-> Mul(df.values[r][c], v[c])])]

\* Series.to_frame(name)
ToFrame(index, series, name) ==
    [index |-> index, columns |-> <<name>>, values |-> [r \in 1..Len(series) |-> <<series[r]>>]]

RECURSIVE KeepRows(_, _)
KeepRows(df, rows) ==
    IF rows = <<>> THEN [df EXCEPT !.index = <<>>, !.values = <<>>]
    ELSE LET rest == KeepRows(df, Tail(rows))
         IN [rest EXCEPT !.index = <<df.index[rows[1]]>> \o rest.index,
                         !.values = <<df.values[rows[1]]>> \o rest.values]

\* DataFrame.dropna(): the rows without any NaN
DropNa(df) ==
    KeepRows(df, SelectSeq([r \in 1..NRows(df) |-> r],
                           LAMBDA r : \A c \in 1..NCols(df) : df.values[r][c].k # "nan"))

\* variant: the shares are counted against the rows
SharesMismatchRows(prices, asset_shares) == NRows(prices) # Len(asset_shares)

SharesMismatch(prices, asset_shares) == NCols(prices) # Len(asset_shares)

\* the first definition (lines 73-114), rebound by the second one below
get_portfolio_risk_profile_first(prices, asset_shares) ==
    IF SharesMismatch(prices, asset_shares)
    THEN Raise("ValueError", "assets vs asset shares",
               <<NCols(prices), Len(asset_shares)>>, "", 91, 0)
    ELSE IF ~DotAligned(prices, asset_shares)
    THEN Raise("ValueError", "Dot product shape mismatch",
               <<NRows(prices), NCols(prices), Len(asset_shares)>>, "", 94, 0)
    ELSE
    LET portfolio_prices == ToFrame(prices.index, FrameDot(prices, asset_shares), "portfolio")
        portfolio_log_returns == DropNa(FrameDiv(portfolio_prices, Shift(portfolio_prices)))
        daily_return == FrameMean(portfolio_log_returns)
        daily_vol == FrameStd(portfolio_log_returns)
        annual_return == AnnualReturn(daily_return)
        annual_vol == AnnualVol(daily_vol)
    IN Return(AssetRiskProfile(portfolio_prices, portfolio_log_returns, daily_return,
                               daily_vol, annual_return, annual_vol), 0)

\* weights @ frame (DataFrame.__rmatmul__, frame.T.dot(weights)): defined when
\* the vector has one entry per ROW of the frame
RDotAligned(v, df) == Len(v) = NRows(df)

\* weights @ series (Series.__rmatmul__)
SeriesDotAligned(v, series) == Len(v) = Len(series)

\* the second definition (lines 134-168), the one the module name is bound to;
\* it has no return statement and its last line reads an undefined name
get_portfolio_risk_profile(asset_risk_profile, weights) ==
    LET asset_prices == asset_risk_profile.time_series.prices
        asset_log_returns == asset_risk_profile.time_series.log_returns
        asset_metrics == asset_risk_profile.metrics
    IN IF ~RDotAligned(weights, asset_prices)
       THEN Raise("ValueError", "shapes not aligned",
                  <<Len(weights), NRows(asset_prices), NCols(asset_prices)>>, "", 163, 0)
       ELSE IF ~RDotAligned(weights, asset_log_returns)
       THEN Raise("ValueError", "shapes not aligned",
                  <<Len(weights), NRows(asset_log_returns), NCols(asset_log_returns)>>,
                  "", 164, 0)
       ELSE IF ~SeriesDotAligned(weights, asset_metrics.daily_return)
       THEN Raise("Exception", "Dot product shape mismatch",
                  <<Len(asset_metrics.daily_return), Len(weights)>>, "", 167, 0)
       ELSE Raise("NameError", "name is not defined", <<>>, "asset_time_series", 168, 0)

\* weights * k
Scaled(weights, k) == [i \in 1..Len(weights) |-> Mul(weights[i], k)]

WeightValues == {Rat(-1, 1), Rat(1, 1), Rat(2, 1)}

WeightVectors == UNION {[1..m -> WeightValues] : m \in 0..MaxAssets}

Scalars == {Rat(-2, 1)}

\* ------------------------------------------------------------------ state
VARIABLES pc, dfs, asset_names, price_field_name, asset_out,
          definition, weights, portfolio_out, k, scaled_out

vars == <<pc, dfs, asset_names, price_field_name, asset_out,
          definition, weights, portfolio_out, k, scaled_out>>

asset_vars == <<dfs, asset_names, price_field_name, asset_out>>

NotCalled == [status |-> "none", value |-> NoProfile, exc |-> NoExc, line |-> 0, reads |-> 0]

Init ==
    /\ pc = "start"
    /\ dfs = <<>>
    /\ asset_names = <<>>
    /\ price_field_name = ""
    /\ asset_out = NotCalled
    /\ definition = "none"
    /\ weights = <<>>
    /\ portfolio_out = NotCalled
    /\ k = Rat(1, 1)
    /\ scaled_out = NotCalled

CallAssetBuilder ==
    /\ pc = "start"
    /\ \E m \in 0..MaxAssets, n \in 0..(MaxAssets + 1), kind \in IndexKinds :
         \E sel \in TableLists(m), names \in NameLists(n), f \in {"Close", "AdjClose"} :
            /\ dfs' = MkTables(sel, kind)
            /\ asset_names' = names
            /\ price_field_name' = f
            /\ asset_out' = get_asset_risk_profile(MkTables(sel, kind), names, f)
    /\ pc' = "asset"
    /\ UNCHANGED <<definition, weights, portfolio_out, k, scaled_out>>

\* a call of the first definition with the price table of the asset profile
CallPortfolioBuilderFirst ==
    /\ pc = "asset"
    /\ asset_out.status = "ok"
    /\ \E w \in WeightVectors :
         /\ weights' = w
         /\ portfolio_out' =
              get_portfolio_risk_profile_first(asset_out.value.time_series.prices, w)
    /\ definition' = "first"
    /\ pc' = "portfolio"
    /\ UNCHANGED <<asset_vars, k, scaled_out>>

\* a call of get_portfolio_risk_profile as the module exports it
CallPortfolioBuilder ==
    /\ pc = "asset"
    /\ asset_out.status = "ok"
    /\ \E w \in WeightVectors :
         /\ weights' = w
         /\ portfolio_out' = get_portfolio_risk_profile(asset_out.value, w)
    /\ definition' = "second"
    /\ pc' = "portfolio"
    /\ UNCHANGED <<asset_vars, k, scaled_out>>

\* the same call again with the weights multiplied by a scalar k # 0
CallPortfolioBuilderFirstScaled ==
    /\ pc = "portfolio"
    /\ definition = "first"
    /\ \E s \in Scalars :
         /\ k' = s
         /\ scaled_out' =
              get_portfolio_risk_profile_first(asset_out.value.time_series.prices,
                                               Scaled(weights, s))
    /\ pc' = "scaled"
    /\ UNCHANGED <<asset_vars, definition, weights, portfolio_out>>

CallPortfolioBuilderScaled ==
    /\ pc = "portfolio"
    /\ definition = "second"
    /\ \E s \in Scalars :
         /\ k' = s
         /\ scaled_out' = get_portfolio_risk_profile(asset_out.value, Scaled(weights, s))
    /\ pc' = "scaled"
    /\ UNCHANGED <<asset_vars, definition, weights, portfolio_out>>

Next ==
    \/ CallAssetBuilder
    \/ CallPortfolioBuilderFirst
    \/ CallPortfolioBuilder
    \/ CallPortfolioBuilderFirstScaled
    \/ CallPortfolioBuilderScaled

Spec == Init /\ [][Next]_vars

\* every number the builders produce is one the number model represents
Represented ==
    \A o \in {asset_out, portfolio_out, scaled_out} :
        o.status = "ok" =>
            /\ \A r \in 1..NRows(o.value.time_series.prices), c \in 1..NCols(o.value.time_series.prices) :
                  o.value.time_series.prices.values[r][c].k # "unrepresented"
            /\ \A r \in 1..NRows(o.value.time_series.log_returns), c \in 1..NCols(o.value.time_series.log_returns) :
                  o.value.time_series.log_returns.values[r][c].k # "unrepresented"
            /\ \A c \in 1..Len(o.value.metrics.daily_return) :
                  /\ o.value.metrics.daily_return[c].k # "unrepresented"
                  /\ o.value.metrics.annual_return[c].k # "unrepresented"


\* ================================================================ claims
\* the asset builder has just been called; the later calls leave its inputs
\* and its outcome unchanged
AssetCalled == pc = "asset"

AssetReturned == pc = "asset" /\ asset_out.status = "ok"

\* the outcome of the latest call
LastOut ==
    IF pc = "scaled" THEN scaled_out ELSE IF pc = "portfolio" THEN portfolio_out ELSE asset_out

PortfolioCalled == pc \in {"portfolio", "scaled"}

AssetPrices == asset_out.value.time_series.prices

AssetLogReturns == asset_out.value.time_series.log_returns

ShapeTexts == {"DataFrames vs names", "assets vs asset shares", "shapes not aligned",
               "Dot product shape mismatch"}

\* y = c * x for a positive integer c, computed on the representation
IsTimesInt(y, x, c) ==
    IF x.k = "nan" THEN y.k = "nan"
    ELSE IF x.k = "inf" THEN y = x
    ELSE LET g == Gcd(c, x.d)
         IN /\ y.k = x.k
            /\ y.n = x.n * (c \div g)
            /\ y.d = x.d \div g
            /\ y.la = x.la
            /\ y.lb = x.lb

\* y = x * sqrt(c): y^2 = c * x^2
IsTimesSqrtInt(y, x, c) ==
    IF x.k = "nan" THEN y.k = "nan"
    ELSE LET g == Gcd(c, x.sq_scale[2])
         IN /\ y.k = "std"
            /\ y.sample = x.sample
            /\ y.sq_scale = <<x.sq_scale[1] * (c \div g), x.sq_scale[2] \div g>>

\* e = ln(cur / prev) under IEEE rules, cur and prev rational or NaN
IsLogReturn(e, cur, prev) ==
    IF cur.k = "nan" \/ prev.k = "nan" THEN e.k = "nan"
    ELSE IF prev.n = 0 THEN (IF cur.n > 0 THEN e = Inf(1) ELSE e.k = "nan")
    ELSE IF Sign(cur.n) * Sign(prev.n) < 0 THEN e.k = "nan"
    ELSE IF cur.n = 0 THEN e = Inf(-1)
    ELSE IF Abs(cur.n) * prev.d = Abs(prev.n) * cur.d THEN e = Rat(0, 1)
    ELSE /\ e.k = "log"
         /\ e.n = 1
         /\ e.d = 1
         /\ e.la * Abs(prev.n) * cur.d = e.lb * Abs(cur.n) * prev.d

Min(S) == CHOOSE x \in S : \A y \in S : x <= y

\* ---- C1
\* C1: with one weight per asset column and a non-zero weight sum, the
\* portfolio builder returns a profile whose price at every date is the sum
\* over the assets of (weights[i] / sum(weights)) * asset_price[t, i]
\* (A = 100, 110, 121, B = 50, 50, 55, weights 1, 1 give 75, 80, 88).
C1_NormalizedPortfolioPrice ==
    (/\ PortfolioCalled
     /\ Len(weights) = NCols(AssetPrices)
     /\ SumSeq(weights).n # 0)
    => /\ portfolio_out.status = "ok"
       /\ LET pp == portfolio_out.value.time_series.prices
          IN /\ NRows(pp) = NRows(AssetPrices)
             /\ \A r \in 1..NRows(pp) :
                  pp.values[r] =
                    <<SumSeq([c \in 1..Len(weights) |->
                                Mul(Div(weights[c], SumSeq(weights)), AssetPrices.values[r][c])])>>

\* ---- C2
\* C2: a call of the portfolio builder with weights that sum to zero fails
\* with a DegenerateWeights error and returns no profile.
C2_DegenerateWeightsRaised ==
    (/\ PortfolioCalled
     /\ Len(weights) = NCols(AssetPrices)
     /\ SumSeq(weights).n = 0)
    => /\ portfolio_out.status = "raise"
       /\ portfolio_out.exc.text \notin ShapeTexts
       /\ portfolio_out.exc.type # "NameError"

\* ---- C3
\* C3: for weights with a non-zero sum and a scalar k # 0, the portfolio
\* builder called with k * weights yields the same result as with weights.
C3_ScaleInvariant ==
    (pc = "scaled" /\ SumSeq(weights).n # 0) => scaled_out = portfolio_out

\* ---- C4
\* C4: when the number of tables differs from the number of names the asset
\* builder raises the ValueError of line 46, whose message names both counts,
\* before any table is read, and returns no profile.
C4_LenMismatchRaises ==
    (AssetCalled /\ Len(dfs) # Len(asset_names))
    => /\ asset_out.status = "raise"
       /\ asset_out.value = NoProfile
       /\ asset_out.exc.type = "ValueError"
       /\ asset_out.exc.text = "DataFrames vs names"
       /\ asset_out.exc.counts = <<Len(dfs), Len(asset_names)>>
       /\ asset_out.reads = 0

\* two tables against three names, the first table lacking the price field
C4_Witness ==
    /\ AssetCalled
    /\ Len(dfs) = 2
    /\ Len(asset_names) = 3
    /\ ~HasColumn(dfs[1], price_field_name)
    /\ asset_out.exc.counts = <<2, 3>>

\* ---- C5
\* C5: when the number of weights differs from the number of asset columns,
\* either definition of the portfolio builder raises a shape error and returns
\* no profile; the first definition raises its own ValueError, which names
\* the two counts.
C5_WeightsMismatchRaises ==
    (PortfolioCalled /\ Len(weights) # NCols(AssetPrices))
    => /\ portfolio_out.status = "raise"
       /\ portfolio_out.value = NoProfile
       /\ portfolio_out.exc.type \in {"ValueError", "Exception"}
       /\ portfolio_out.exc.text \in ShapeTexts
       /\ definition = "first" =>
            /\ portfolio_out.exc.text = "assets vs asset shares"
            /\ portfolio_out.exc.counts = <<NCols(AssetPrices), Len(weights)>>
       /\ pc = "scaled" => scaled_out = portfolio_out

\* one weight for two assets, given to the first definition
C5_Witness ==
    /\ PortfolioCalled
    /\ definition = "first"
    /\ NCols(AssetPrices) = 2
    /\ NRows(AssetPrices) = 3
    /\ Len(weights) = 1
    /\ portfolio_out.exc.counts = <<2, 1>>

\* ---- C6
\* C6: the combined price table has one column per asset name, in the order
\* of the names; column i holds the requested field of table i; its rows are
\* the union of the dates of the tables, one row per date; a date absent from
\* table i is a missing value in column i, not zero.
C6_CombinedPriceTable ==
    AssetReturned
    => /\ Len(dfs) = Len(asset_names)
       /\ AssetPrices.columns = asset_names
       /\ Range(AssetPrices.index) = UNION {Range(dfs[i].index) : i \in 1..Len(dfs)}
       /\ Len(AssetPrices.index) = Cardinality(Range(AssetPrices.index))
       /\ Len(AssetPrices.values) = Len(AssetPrices.index)
       /\ \A r \in 1..Len(AssetPrices.index) :
            /\ Len(AssetPrices.values[r]) = Len(asset_names)
            /\ \A c \in 1..Len(asset_names) :
                 LET t == AssetPrices.index[r]
                     here == {j \in 1..Len(dfs[c].index) : dfs[c].index[j] = t}
                 IN IF here = {}
                    THEN AssetPrices.values[r][c].k = "nan"
                    ELSE \A j \in here :
                           AssetPrices.values[r][c] = dfs[c].data[price_field_name][j]

\* two tables over different dates: each column has a missing value
C6_Witness ==
    /\ AssetReturned
    /\ asset_names = <<"B", "A">>
    /\ price_field_name = "AdjClose"
    /\ NRows(AssetPrices) = 3
    /\ \E r \in 1..3 : AssetPrices.values[r][1].k = "nan" /\ AssetPrices.values[r][2].k = "rat"
    /\ \E r \in 1..3 : AssetPrices.values[r][2].k = "nan" /\ AssetPrices.values[r][1].k = "rat"

\* ---- C7
\* C7 as stated: log_returns has the columns of prices, exactly one row fewer,
\* and the index of prices with the earliest date removed; each entry is the
\* log of the price over the price of the preceding row.
C7_EarliestDateDropped ==
    AssetReturned
    => /\ AssetLogReturns.columns = AssetPrices.columns
       /\ NRows(AssetLogReturns) = NRows(AssetPrices) - 1
       /\ AssetLogReturns.index =
            SelectSeq(AssetPrices.index, LAMBDA t : t # Min(Range(AssetPrices.index)))
       /\ \A r \in 1..NRows(AssetLogReturns), c \in 1..NCols(AssetPrices) :
            IsLogReturn(AssetLogReturns.values[r][c],
                        AssetPrices.values[r + 1][c], AssetPrices.values[r][c])

\* C7 amended: log_returns has the columns of prices; a price table without
\* rows gives log_returns without rows; otherwise log_returns has one row
\* fewer and its index is the index of prices without its FIRST row, which is
\* the earliest date when the index of prices is ascending; each entry is the
\* log of the price over the price of the preceding row (missing when either
\* is missing).
C7_FirstRowDropped ==
    AssetReturned
    => /\ AssetLogReturns.columns = AssetPrices.columns
       /\ NRows(AssetPrices) = 0 => NRows(AssetLogReturns) = 0
       /\ NRows(AssetPrices) >= 1 =>
            /\ NRows(AssetLogReturns) = NRows(AssetPrices) - 1
            /\ AssetLogReturns.index = Tail(AssetPrices.index)
            /\ (\A r \in 1..(NRows(AssetPrices) - 1) :
                  AssetPrices.index[r] < AssetPrices.index[r + 1])
               => AssetPrices.index[1] = Min(Range(AssetPrices.index))
       /\ Len(AssetLogReturns.values) = NRows(AssetLogReturns)
       /\ \A r \in 1..NRows(AssetLogReturns), c \in 1..NCols(AssetPrices) :
            IsLogReturn(AssetLogReturns.values[r][c],
                        AssetPrices.values[r + 1][c], AssetPrices.values[r][c])

\* the union of the indexes 2, 3 and 1, 2 in order of appearance: the dropped
\* first row is date 2, and the returns are taken from date 2 to 3 and 3 to 1
C7_Witness ==
    /\ AssetReturned
    /\ AssetPrices.index = <<2, 3, 1>>
    /\ AssetLogReturns.index = <<3, 1>>
    /\ AssetLogReturns.values[1][1].k = "log"

\* ---- C8
\* C8: in a profile returned by the portfolio builder over a non-empty price
\* series, the return series has one row fewer than the price series and its
\* entry at each date is ln(portfolio_price[t] / portfolio_price[t-1]).
C8_PortfolioLogReturns ==
    (PortfolioCalled /\ portfolio_out.status = "ok")
    => LET pp == portfolio_out.value.time_series.prices
           lr == portfolio_out.value.time_series.log_returns
       IN /\ NRows(pp) >= 1 => NRows(lr) = NRows(pp) - 1
          /\ \A r \in 1..NRows(lr) :
               \E j \in 2..NRows(pp) :
                  /\ pp.index[j] = lr.index[r]
                  /\ IsLogReturn(lr.values[r][1], pp.values[j][1], pp.values[j - 1][1])

\* ---- C9
\* C9: in every returned profile, of the assets or of the portfolio,
\* annual_return is daily_return * 252 and annual_vol is daily_vol * sqrt(252),
\* entry by entry.
C9_Annualization ==
    LET o == LastOut
    IN  o.status = "ok"
        => LET m == o.value.metrics
           IN /\ Len(m.annual_return) = Len(m.daily_return)
              /\ Len(m.annual_vol) = Len(m.daily_vol)
              /\ Len(m.daily_return) = NCols(o.value.time_series.prices)
              /\ Len(m.daily_vol) = NCols(o.value.time_series.prices)
              /\ \A c \in 1..Len(m.daily_return) :
                    IsTimesInt(m.annual_return[c], m.daily_return[c], 252)
              /\ \A c \in 1..Len(m.daily_vol) :
                    IsTimesSqrtInt(m.annual_vol[c], m.daily_vol[c], 252)

\* an asset profile and a portfolio profile, both with a return and a
\* volatility that are numbers
C9_Witness ==
    /\ pc = "portfolio"
    /\ portfolio_out.status = "ok"
    /\ asset_out.value.metrics.daily_return[1].k = "log"
    /\ asset_out.value.metrics.daily_vol[1].k = "std"
    /\ portfolio_out.value.metrics.daily_return[1].k = "rat"
    /\ portfolio_out.value.metrics.daily_vol[1].k = "std"

\* ---- C10
\* C10 as stated: with as many tables as names and a table without the price
\* field, the asset builder fails with a missing-field error that names the
\* position of the offending table and the field.
C10_MissingFieldNamesPosition ==
    (/\ AssetCalled
     /\ Len(dfs) = Len(asset_names)
     /\ \E i \in 1..Len(dfs) : ~HasColumn(dfs[i], price_field_name))
    => /\ asset_out.status = "raise"
       /\ asset_out.exc.type = "KeyError"
       /\ asset_out.exc.key = price_field_name
       /\ \E i \in 1..Len(dfs) :
            /\ ~HasColumn(dfs[i], price_field_name)
            /\ asset_out.exc.counts = <<i>>

\* C10 amended: with as many tables as names and a table without the price
\* field, the asset builder fails with a KeyError that names the field only,
\* not the position of the table; it is raised at the first such table in list
\* order, no profile is returned and no other field is substituted.
C10_MissingFieldRaises ==
    (/\ AssetCalled
     /\ Len(dfs) = Len(asset_names)
     /\ \E i \in 1..Len(dfs) : ~HasColumn(dfs[i], price_field_name))
    => /\ asset_out.status = "raise"
       /\ asset_out.value = NoProfile
       /\ asset_out.exc.type = "KeyError"
       /\ asset_out.exc.key = price_field_name
       /\ asset_out.exc.counts = <<>>
       /\ ~HasColumn(dfs[asset_out.reads], price_field_name)
       /\ \A j \in 1..(asset_out.reads - 1) : HasColumn(dfs[j], price_field_name)

\* two tables, two names, the second table without the price field
C10_Witness ==
    /\ AssetCalled
    /\ Len(dfs) = 2
    /\ Len(asset_names) = 2
    /\ HasColumn(dfs[1], price_field_name)
    /\ ~HasColumn(dfs[2], price_field_name)
    /\ asset_out.exc.type = "KeyError"
    /\ asset_out.reads = 2

====
